---- MODULE Spec2Model ----
(***************************************************************************)
(* The permission core of VennLe/charlotte: the collapsed role-string      *)
(* system (UnifiedPermissionDAO + SimplifiedPermissionService) and the     *)
(* tag-based system (PermissionService over UserPermissionDAO and the      *)
(* user-group DAOs), over one shared relational store.                     *)
(*                                                                         *)
(* Tables are sequences of rows in primary-key order, so "First" (ORDER BY  *)
(* id LIMIT 1) is the first matching position. role_permissions holds the  *)
(* rows whose deleted_at is NULL: gorm leaves a soft-deleted row out of     *)
(* every query the program makes on that table.                            *)
(* Strings that the code splits (operation sets such as                    *)
(* "read,write,create") are sequences of tokens; "," and " " are tokens.   *)
(* Times are integers; ZeroTime is Go's zero time.Time, before every now.  *)
(***************************************************************************)
EXTENDS Integers, Sequences, FiniteSets, TLC

\* ------------------------------------------------------------------ bounds

MaxNow == 3

MaxAdds == 1

MaxOverlay == 2

\* --------------------------------------------------------------- constants

RoleGuest == "guest"

RoleUser == "user"

RoleVIP == "vip"

RoleAdmin == "admin"

RoleSuperAdmin == "superadmin"

Roles == {RoleGuest, RoleUser, RoleVIP, RoleAdmin, RoleSuperAdmin}

PermissionRead == "read"

PermissionWrite == "write"

PermissionCreate == "create"

PermissionDelete == "delete"

PermissionAll == "all"

\* The zero time.Time: what an ExpiredAt field holds when the caller sets none.
ZeroTime == 0

\* users.status: 1 normal, 2 disabled.
StatusNormal == 1

StatusDisabled == 2

\* ----------------------------------------------------- strings as tokens

Comma == ","

Space == " "

\* The string made of one word.
Str(w) == <<w>>

OpsAll == Str(PermissionAll)

OpsRead == Str(PermissionRead)

OpsDelete == Str(PermissionDelete)

OpsReadDelete == <<"read", Comma, "delete">>
\* "read, delete": a list written with a space after the comma.
OpsReadSpaceDelete == <<"read", Comma, Space, "delete">>

OpsReadWrite == <<"read", Comma, "write">>

OpsReadWriteCreate == <<"read", Comma, "write", Comma, "create">>

\* strings.Split(s, ","): the pieces between the commas; one empty piece for "".
RECURSIVE Split(_)
Split(s) ==
    IF \A i \in 1..Len(s) : s[i] # Comma
    THEN <<s>>
    ELSE LET k == CHOOSE i \in 1..Len(s) :
                      s[i] = Comma /\ \A j \in 1..(i - 1) : s[j] # Comma
         IN  <<SubSeq(s, 1, k - 1)>> \o Split(SubSeq(s, k + 1, Len(s)))

\* strings.TrimSpace: drop the leading and the trailing spaces.
RECURSIVE TrimSpace(_)
TrimSpace(s) ==
    IF s = <<>> THEN s
    ELSE IF Head(s) = Space THEN TrimSpace(Tail(s))
    ELSE IF s[Len(s)] = Space THEN TrimSpace(SubSeq(s, 1, Len(s) - 1))
    ELSE s

\* containsOperation that stops after the first piece of the list.
containsOperation_FirstOnly(operations, targetOp) ==
    \/ operations = OpsAll
    \/ TrimSpace(Split(operations)[1]) = Str(targetOp)

\* containsOperation without the test for "all".
containsOperation_NoWildcard(operations, targetOp) ==
    \E i \in 1..Len(Split(operations)) :
        TrimSpace(Split(operations)[i]) = Str(targetOp)

\* containsOperation, the same in the unified DAO, the tag service and the DAOs.
containsOperation(operations, targetOp) ==
    \/ operations = OpsAll
    \/ \E i \in 1..Len(Split(operations)) :
           TrimSpace(Split(operations)[i]) = Str(targetOp)

\* -------------------------------------------------------------------- state

VARIABLES
    users,            \* users table: id -> record (exists = a row is there)
    userRoles,        \* user_roles rows
    rolePermissions,  \* role_permissions rows
    userPermissions,  \* user_permissions rows (the per-user overlay)
    groupMembers,     \* user_group_members rows
    groupPermissions, \* user_group_permissions rows
    now,              \* the clock, time.Now()
    storeUp,          \* whether the database answers
    last,             \* the last call: its name, arguments and result
    inflight,         \* per goroutine: the call it is in the middle of
    cleanup,          \* the SchedulePermissionCleanup goroutine and its context
    request           \* the HTTP request in the middleware chain: its gin.Context

vars == <<users, userRoles, rolePermissions, userPermissions, groupMembers,
          groupPermissions, now, storeUp, last, inflight, cleanup,
          request>>

UserIds == {1, 2}

ReqResourceTypes == {"content", "admin"}

ReqOperations == {PermissionRead, PermissionWrite, PermissionDelete}

NoCall ==
    [op |-> "none", user |-> 0, rt |-> "", oper |-> "", has |-> FALSE,
     role |-> "", err |-> FALSE]

Call(op, user, rt, oper, has, role, err) ==
    [op |-> op, user |-> user, rt |-> rt, oper |-> oper, has |-> has,
     role |-> role, err |-> err]

Min(S) == CHOOSE x \in S : \A y \in S : x <= y

\* The goroutines that call the DAOs at the same time.
Procs == {1, 2}

\* A goroutine between two calls.
Idle ==
    [op |-> "idle", rt |-> "", oper |-> "",
     user |-> 0, role |-> "", found |-> FALSE, ids |-> <<>>,
     members |-> <<>>]

\* SchedulePermissionCleanup before it is started: pc is the goroutine's
\* position, cancelled is ctx.Done() being closed, tick is a value waiting in
\* ticker.C, late records that a sweep began after the cancellation.
NotScheduled ==
    [pc |-> "select", cancelled |-> FALSE, tick |-> FALSE, late |-> FALSE,
     ids |-> <<>>]

\* No request is being served. stage is where the request is (none, chain,
\* handler, aborted), chain the middlewares still to run, userId and userRole
\* the gin.Context keys "user_id" and "user_role" (hasUserId, hasUserRole: the
\* key is set), status the response code written by an aborting middleware.
NoRequest ==
    [stage |-> "none", route |-> "", chain |-> <<>>, cred |-> 0,
     hasUserId |-> FALSE, userId |-> 0, hasUserRole |-> FALSE, userRole |-> "",
     status |-> 0]

\* ------------------------------------------------------------ users table

\* A user as UserDAO.Create stores it: BeforeCreate sets role "user", status 1.
NewUser ==
    [exists |-> TRUE, status |-> StatusNormal, role |-> RoleUser,
     isSuperAdmin |-> FALSE]

NoUser ==
    [exists |-> FALSE, status |-> StatusNormal, role |-> "",
     isSuperAdmin |-> FALSE]

\* UserDAO.GetByID returns an error when the row is missing (ErrUserNotFound)
\* and when the query itself fails; both services only test err != nil.
GetByIDFails(u) == ~storeUp \/ ~users[u].exists

\* ------------------------------------------- unified DAO: role_permissions

RolePermission(role, resourceType, operations, scope) ==
    [role |-> role, resourceType |-> resourceType, operations |-> operations,
     scope |-> scope]

DefaultPermissions ==
    << RolePermission(RoleSuperAdmin, "*", OpsAll, "all"),
       RolePermission(RoleAdmin, "user", OpsReadWriteCreate, "all"),
       RolePermission(RoleAdmin, "content", OpsReadWriteCreate, "all"),
       RolePermission(RoleAdmin, "system", OpsReadWrite, "all"),
       RolePermission(RoleVIP, "user", OpsRead, "own"),
       RolePermission(RoleVIP, "content", OpsRead, "all"),
       RolePermission(RoleUser, "user", OpsRead, "own"),
       RolePermission(RoleUser, "content", OpsRead, "own"),
       RolePermission(RoleGuest, "content", OpsRead, "public") >>

\* checkPermissionExists with the count test dropped: nothing ever exists.
checkPermissionExists_Never(table, role, resourceType) == FALSE

\* checkPermissionExists: COUNT(*) > 0 over the rows of the pair.
checkPermissionExists(table, role, resourceType) ==
    \E i \in 1..Len(table) :
        /\ table[i].role = role
        /\ table[i].resourceType = resourceType

\* The loop of InitializeDefaultPermissions from its k-th default on.
RECURSIVE SeedFrom(_, _)
SeedFrom(table, k) ==
    IF k > Len(DefaultPermissions) THEN table
    ELSE LET perm == DefaultPermissions[k]
         IN  SeedFrom(IF checkPermissionExists(table, perm.role, perm.resourceType)
                      THEN table
                      ELSE Append(table, perm),
                      k + 1)

SeedResult(table) == SeedFrom(table, 1)

\* The rows AddRolePermission put there: those that are no default.
AddedRows(table) ==
    {i \in 1..Len(table) :
        \A k \in 1..Len(DefaultPermissions) : table[i] # DefaultPermissions[k]}

\* --------------------------------------------------- unified DAO: user_roles

UserRole(userId, role, expiredAt) ==
    [userId |-> userId, role |-> role, isActive |-> TRUE, expiredAt |-> expiredAt]

\* Where("user_id = ? AND is_active = ?", userID, true)
ActiveRoleRows(u) ==
    {i \in 1..Len(userRoles) : userRoles[i].userId = u /\ userRoles[i].isActive}

\* GetUserRole without the is_active condition.
GetUserRole_AnyRow(u) ==
    LET rows == {i \in 1..Len(userRoles) : userRoles[i].userId = u}
    IN  IF ~storeUp THEN [role |-> "", err |-> TRUE]
        ELSE IF rows = {} THEN [role |-> RoleGuest, err |-> FALSE]
        ELSE [role |-> userRoles[Min(rows)].role, err |-> FALSE]

\* GetUserRole: the first active row of the user, guest when there is none.
GetUserRole(u) ==
    IF ~storeUp THEN [role |-> "", err |-> TRUE]
    ELSE IF ActiveRoleRows(u) = {} THEN [role |-> RoleGuest, err |-> FALSE]
    ELSE [role |-> userRoles[Min(ActiveRoleRows(u))].role, err |-> FALSE]

\* The rows fetched for a resource type, whatever the role.
RolePermissionRows_AnyRole(role, resourceType) ==
    {i \in 1..Len(rolePermissions) :
        \/ rolePermissions[i].resourceType = resourceType
        \/ rolePermissions[i].resourceType = "*"}

\* The rows CheckPermission fetches for a role and a resource type.
RolePermissionRows(role, resourceType) ==
    {i \in 1..Len(rolePermissions) :
        \/ /\ rolePermissions[i].role = role
           /\ rolePermissions[i].resourceType = resourceType
        \/ /\ rolePermissions[i].role = role
           /\ rolePermissions[i].resourceType = "*"}

\* CheckPermission looking at the first matching row only.
DAOCheckPermission_FirstRow(u, resourceType, operation) ==
    LET r == GetUserRole(u)
        rows == RolePermissionRows(r.role, resourceType)
    IN  IF r.err THEN [has |-> FALSE, err |-> TRUE]
        ELSE IF r.role = RoleSuperAdmin THEN [has |-> TRUE, err |-> FALSE]
        ELSE [has |-> /\ rows # {}
                      /\ containsOperation(rolePermissions[Min(rows)].operations,
                                           operation),
              err |-> FALSE]

\* UnifiedPermissionDAO.CheckPermission
DAOCheckPermission(u, resourceType, operation) ==
    LET r == GetUserRole(u)
    IN  IF r.err THEN [has |-> FALSE, err |-> TRUE]
        ELSE IF r.role = RoleSuperAdmin THEN [has |-> TRUE, err |-> FALSE]
        ELSE [has |-> \E i \in RolePermissionRows(r.role, resourceType) :
                          containsOperation(rolePermissions[i].operations, operation),
              err |-> FALSE]

\* ------------------------------------------------ simplified service

checkGuestPermission(resourceType, operation) ==
    resourceType = "content" /\ operation = PermissionRead

\* A role string outside the registry.
UnknownRole == "root"

isValidRole(role) ==
    role \in {RoleSuperAdmin, RoleAdmin, RoleVIP, RoleUser, RoleGuest}

\* SimplifiedPermissionService.GetRolePermissions: the role is validated
\* first (invalidRole: the error is the invalid-role one), then the DAO's
\* Where("role = ?") rows are returned.
GetRolePermissions(role) ==
    IF ~isValidRole(role)
    THEN [rows |-> <<>>, err |-> TRUE, invalidRole |-> TRUE]
    ELSE IF ~storeUp
    THEN [rows |-> <<>>, err |-> TRUE, invalidRole |-> FALSE]
    ELSE LET OfRole(row) == row.role = role
         IN  [rows |-> SelectSeq(rolePermissions, OfRole), err |-> FALSE,
              invalidRole |-> FALSE]

\* The Reason strings of PermissionCheckResult, by what they say: the user
\* does not exist and is handled as a guest; the user is disabled; the check
\* passed; the permission is insufficient.
ReasonGuestFallback == "user not found, handled as guest"
ReasonDisabled == "user disabled"
ReasonPassed == "permission check passed"
ReasonInsufficient == "insufficient permission"

\* SimplifiedPermissionService.CheckPermission with a missing user denied.
SimplifiedCheckPermission_DenyMissing(u, resourceType, operation) ==
    IF GetByIDFails(u)
    THEN [has |-> FALSE, role |-> RoleGuest, err |-> FALSE]
    ELSE IF users[u].status # StatusNormal
    THEN [has |-> FALSE, role |-> users[u].role, err |-> FALSE]
    ELSE LET c == DAOCheckPermission(u, resourceType, operation)
             r == GetUserRole(u)
         IN  IF c.err \/ r.err THEN [has |-> FALSE, role |-> "", err |-> TRUE]
             ELSE [has |-> c.has, role |-> r.role, err |-> FALSE]

\* SimplifiedPermissionService.CheckPermission: the result and the error.
\* A nil result with an error is has = FALSE, role = "", err = TRUE.
SimplifiedCheckPermission(u, resourceType, operation) ==
    IF GetByIDFails(u)
    THEN [has |-> checkGuestPermission(resourceType, operation),
          role |-> RoleGuest, err |-> FALSE, reason |-> ReasonGuestFallback]
    ELSE IF users[u].status # StatusNormal
    THEN [has |-> FALSE, role |-> users[u].role, err |-> FALSE,
          reason |-> ReasonDisabled]
    ELSE LET c == DAOCheckPermission(u, resourceType, operation)
             r == GetUserRole(u)
         IN  IF c.err \/ r.err
             THEN [has |-> FALSE, role |-> "", err |-> TRUE, reason |-> ""]
             ELSE [has |-> c.has, role |-> r.role, err |-> FALSE,
                   reason |-> IF c.has THEN ReasonPassed ELSE ReasonInsufficient]

\* ---------------------------------------------------------------- actions
\* A write against a store that does not answer returns the driver's error and
\* changes no table, so the writes are taken while the store is up.

\* The environment: the clock, the database going away and coming back.
Tick ==
    /\ now < MaxNow
    /\ now' = now + 1
    /\ last' = NoCall
    /\ UNCHANGED <<inflight, cleanup, request>>
    /\ UNCHANGED <<users, userRoles, rolePermissions, userPermissions,
                   groupMembers, groupPermissions, storeUp>>

StoreDown ==
    /\ storeUp
    /\ storeUp' = FALSE
    /\ last' = NoCall
    /\ UNCHANGED <<inflight, cleanup, request>>
    /\ UNCHANGED <<users, userRoles, rolePermissions, userPermissions,
                   groupMembers, groupPermissions, now>>

StoreRecover ==
    /\ ~storeUp
    /\ storeUp' = TRUE
    /\ last' = NoCall
    /\ UNCHANGED <<inflight, cleanup, request>>
    /\ UNCHANGED <<users, userRoles, rolePermissions, userPermissions,
                   groupMembers, groupPermissions, now>>

\* UserService.UpdateUser: the handler passes the request's map on, so status,
\* role and is_super_admin are written as the caller gives them.
UpdateUser(u, status, role, isSuperAdmin) ==
    /\ storeUp
    /\ users[u].exists
    /\ users' = [users EXCEPT ![u] = [exists |-> TRUE, status |-> status,
                                      role |-> role,
                                      isSuperAdmin |-> isSuperAdmin]]
    /\ last' = NoCall
    /\ UNCHANGED <<inflight, cleanup, request>>
    /\ UNCHANGED <<userRoles, rolePermissions, userPermissions, groupMembers,
                   groupPermissions, now, storeUp>>

\* InitializeDefaultPermissions (service and DAO)
InitializeDefaultPermissions ==
    /\ storeUp
    /\ rolePermissions' = SeedResult(rolePermissions)
    /\ last' = Call("InitializeDefaultPermissions", 0, "", "", FALSE, "", FALSE)
    /\ UNCHANGED <<inflight, cleanup, request>>
    /\ UNCHANGED <<users, userRoles, userPermissions, groupMembers,
                   groupPermissions, now, storeUp>>

\* SimplifiedPermissionService.AddRolePermission over the DAO's Create.
AddRolePermission(role, resourceType, operations, scope) ==
    /\ storeUp
    /\ Cardinality(AddedRows(rolePermissions)) < MaxAdds
    /\ IF isValidRole(role)
       THEN /\ rolePermissions' =
                   Append(rolePermissions,
                          RolePermission(role, resourceType, operations, scope))
            /\ last' = Call("AddRolePermission", 0, resourceType, "", FALSE, role, FALSE)
       ELSE /\ UNCHANGED rolePermissions
            /\ last' = Call("AddRolePermission", 0, resourceType, "", FALSE, role, TRUE)
    /\ UNCHANGED <<inflight, cleanup, request>>
    /\ UNCHANGED <<users, userRoles, userPermissions, groupMembers,
                   groupPermissions, now, storeUp>>

\* RemoveRolePermission with the resource type left out of the condition.
RemoveRolePermission_ByRole(role, resourceType) ==
    /\ storeUp
    /\ LET Keep(row) == row.role # role
       IN  rolePermissions' = SelectSeq(rolePermissions, Keep)
    /\ last' = Call("RemoveRolePermission", 0, resourceType, "", FALSE, role, FALSE)
    /\ UNCHANGED <<inflight, cleanup, request>>
    /\ UNCHANGED <<users, userRoles, userPermissions, groupMembers,
                   groupPermissions, now, storeUp>>

\* UnifiedPermissionDAO.RemoveRolePermission: a soft delete of every row of
\* the pair.
RemoveRolePermission(role, resourceType) ==
    /\ storeUp
    /\ LET Keep(row) == ~(row.role = role /\ row.resourceType = resourceType)
       IN  rolePermissions' = SelectSeq(rolePermissions, Keep)
    /\ last' = Call("RemoveRolePermission", 0, resourceType, "", FALSE, role, FALSE)
    /\ UNCHANGED <<inflight, cleanup, request>>
    /\ UNCHANGED <<users, userRoles, userPermissions, groupMembers,
                   groupPermissions, now, storeUp>>

\* user_roles without the unique index: Create never fails.
UserRoleCreateFails_NoIndex(u) == FALSE

\* user_roles.user_id carries a unique index: Create fails when the user has a
\* row already, active or not.
UserRoleCreateFails(u) == \E i \in 1..Len(userRoles) : userRoles[i].userId = u

\* SimplifiedPermissionService.SetUserRole over UnifiedPermissionDAO.SetUserRole
SetUserRole(u, role) ==
    /\ storeUp
    /\ IF ~isValidRole(role)
       THEN /\ UNCHANGED userRoles
            /\ last' = Call("SetUserRole", u, "", "", FALSE, role, TRUE)
       ELSE IF ActiveRoleRows(u) = {}
       THEN IF UserRoleCreateFails(u)
            THEN /\ UNCHANGED userRoles
                 /\ last' = Call("SetUserRole", u, "", "", FALSE, role, TRUE)
            ELSE /\ userRoles' = Append(userRoles, UserRole(u, role, ZeroTime))
                 /\ last' = Call("SetUserRole", u, "", "", FALSE, role, FALSE)
       ELSE /\ userRoles' =
                   [i \in 1..Len(userRoles) |->
                       IF i \in ActiveRoleRows(u)
                       THEN [userRoles[i] EXCEPT !.role = role]
                       ELSE userRoles[i]]
            /\ last' = Call("SetUserRole", u, "", "", FALSE, role, FALSE)
    /\ UNCHANGED <<inflight, cleanup, request>>
    /\ UNCHANGED <<users, rolePermissions, userPermissions, groupMembers,
                   groupPermissions, now, storeUp>>

\* UnifiedPermissionDAO.GrantTemporaryRole
GrantTemporaryRole(u, role, duration) ==
    /\ storeUp
    /\ IF UserRoleCreateFails(u)
       THEN /\ UNCHANGED userRoles
            /\ last' = Call("GrantTemporaryRole", u, "", "", FALSE, role, TRUE)
       ELSE /\ userRoles' = Append(userRoles, UserRole(u, role, now + duration))
            /\ last' = Call("GrantTemporaryRole", u, "", "", FALSE, role, FALSE)
    /\ UNCHANGED <<inflight, cleanup, request>>
    /\ UNCHANGED <<users, rolePermissions, userPermissions, groupMembers,
                   groupPermissions, now, storeUp>>

\* UnifiedPermissionDAO.RevokeRole
RevokeRole(u) ==
    /\ storeUp
    /\ userRoles' =
           [i \in 1..Len(userRoles) |->
               IF userRoles[i].userId = u
               THEN [userRoles[i] EXCEPT !.isActive = FALSE]
               ELSE userRoles[i]]
    /\ last' = Call("RevokeRole", u, "", "", FALSE, "", FALSE)
    /\ UNCHANGED <<inflight, cleanup, request>>
    /\ UNCHANGED <<users, rolePermissions, userPermissions, groupMembers,
                   groupPermissions, now, storeUp>>

\* A call of UnifiedPermissionDAO.GetUserRole
CallGetUserRole(u) ==
    /\ last' = Call("GetUserRole", u, "", "", FALSE, GetUserRole(u).role,
                    GetUserRole(u).err)
    /\ UNCHANGED <<inflight, cleanup, request>>
    /\ UNCHANGED <<users, userRoles, rolePermissions, userPermissions,
                   groupMembers, groupPermissions, now, storeUp>>

\* A call of SimplifiedPermissionService.GetRolePermissions
CallGetRolePermissions(role) ==
    /\ last' = Call("GetRolePermissions", 0, "", "",
                    GetRolePermissions(role).rows # <<>>, role,
                    GetRolePermissions(role).err)
    /\ UNCHANGED <<inflight, cleanup, request>>
    /\ UNCHANGED <<users, userRoles, rolePermissions, userPermissions,
                   groupMembers, groupPermissions, now, storeUp>>

\* A call of SimplifiedPermissionService.CheckPermission
CallSimplifiedCheckPermission(u, resourceType, operation) ==
    /\ LET res == SimplifiedCheckPermission(u, resourceType, operation)
       IN  last' = Call("SimplifiedCheckPermission", u, resourceType, operation,
                        res.has, res.role, res.err)
    /\ UNCHANGED <<inflight, cleanup, request>>
    /\ UNCHANGED <<users, userRoles, rolePermissions, userPermissions,
                   groupMembers, groupPermissions, now, storeUp>>

\* ------------------------------------------- the role-string specification

\* The calls the role-permission table is driven with.
AddInputs ==
    { <<RoleAdmin, "report", OpsReadWrite, "all">>,
      <<RoleGuest, "admin", OpsAll, "public">>,
      <<RoleVIP, "report", OpsReadSpaceDelete, "all">>,
      <<RoleUser, "content", OpsDelete, "all">> }

RemoveInputs == { <<RoleGuest, "content">>, <<RoleAdmin, "report">> }

\* The user records UpdateUser is called with.
Profiles ==
    { <<StatusNormal, RoleUser, FALSE>>, <<StatusDisabled, RoleUser, FALSE>>,
      <<StatusNormal, RoleSuperAdmin, TRUE>>,
      <<StatusDisabled, RoleSuperAdmin, TRUE>> }

Init ==
    /\ users = [u \in UserIds |-> IF u = 1 THEN NewUser ELSE NoUser]
    /\ userRoles = <<>>
    /\ rolePermissions = <<>>
    /\ userPermissions = <<>>
    /\ groupMembers = <<>>
    /\ groupPermissions = <<>>
    /\ now = 1
    /\ storeUp = TRUE
    /\ last = NoCall
    /\ inflight = [p \in Procs |-> Idle]
    /\ cleanup = NotScheduled
    /\ request = NoRequest

Next ==
    \/ InitializeDefaultPermissions
    \/ \E p \in AddInputs : AddRolePermission(p[1], p[2], p[3], p[4])
    \/ \E p \in RemoveInputs : RemoveRolePermission(p[1], p[2])
    \/ \E r \in Roles : SetUserRole(1, r)
    \/ \E r \in {RoleGuest, UnknownRole} : CallGetRolePermissions(r)
    \/ \E p \in Profiles : UpdateUser(1, p[1], p[2], p[3])
    \/ StoreDown
    \/ StoreRecover
    \/ \E u \in UserIds, rt \in ReqResourceTypes, o \in ReqOperations :
           CallSimplifiedCheckPermission(u, rt, o)

Spec == Init /\ [][Next]_vars

\* ------------------------------------------------ tag system: the tables

\* SQL NULL in a time column. ExpiredAt is a time.Time, not a pointer, so no
\* write of the program stores it: an unset expiration is stored as ZeroTime.
NullTime == -1

UserPermission(userId, tagId, operations, resourceType, scope, expiredAt) ==
    [userId |-> userId, tagId |-> tagId, operations |-> operations,
     resourceType |-> resourceType, scope |-> scope, isGrant |-> TRUE,
     expiredAt |-> expiredAt, deleted |-> FALSE]

UserGroupMember(userId, groupId) ==
    [userId |-> userId, groupId |-> groupId, status |-> 1, deleted |-> FALSE]

UserGroupPermission(groupId, tagId, operations, resourceType, scope) ==
    [groupId |-> groupId, tagId |-> tagId, operations |-> operations,
     resourceType |-> resourceType, scope |-> scope]

\* GetActiveUserPermissions with the expiry condition left out of the query.
GetActiveUserPermissions_NoExpiry(u) ==
    LET Active(row) == /\ ~row.deleted
                       /\ row.userId = u
                       /\ row.isGrant = TRUE
    IN  SelectSeq(userPermissions, Active)

\* UserPermissionDAO.GetActiveUserPermissions: the conditions of the map, ANDed.
GetActiveUserPermissions(u) ==
    LET Active(row) == /\ ~row.deleted
                       /\ row.userId = u
                       /\ row.isGrant = TRUE
                       /\ (row.expiredAt > now \/ row.expiredAt = NullTime)
    IN  SelectSeq(userPermissions, Active)

\* UserPermissionDAO.GetExpiredPermissions: the ids of the rows it returns.
GetExpiredPermissions ==
    {i \in 1..Len(userPermissions) :
        /\ ~userPermissions[i].deleted
        /\ userPermissions[i].expiredAt <= now
        /\ userPermissions[i].expiredAt # NullTime}

\* UserGroupMemberDAO.GetUserGroups: the ids of the user's live status-1 rows.
GetUserGroups(u) ==
    {i \in 1..Len(groupMembers) :
        /\ ~groupMembers[i].deleted
        /\ groupMembers[i].userId = u
        /\ groupMembers[i].status = 1}

\* PermissionService.getUserGroupPermissions: the rows of the user's groups.
getUserGroupPermissions(u) ==
    LET OfGroup(row) == \E m \in GetUserGroups(u) :
                            /\ groupMembers[m].status = 1
                            /\ groupMembers[m].groupId = row.groupId
    IN  SelectSeq(groupPermissions, OfGroup)

\* ------------------------------------------- tag system: PermissionService

hasBasePermission(role, operation) ==
    CASE role = RoleSuperAdmin -> TRUE
      [] role = RoleAdmin -> operation # PermissionDelete
      [] role \in {RoleVIP, RoleUser} -> operation = PermissionRead
      [] role = RoleGuest -> FALSE
      [] OTHER -> FALSE

checkResourceScope(scope) ==
    CASE scope = "all" -> TRUE
      [] scope = "own" -> TRUE
      [] scope = "system" -> TRUE
      [] OTHER -> FALSE

\* matchPermission and matchPermissionFromGroup: the same three tests.
matchPermission(perm, resourceType, operation) ==
    /\ perm.resourceType = resourceType
    /\ containsOperation(perm.operations, operation)
    /\ checkResourceScope(perm.scope)

\* checkPermissions: the first matching special permission decides, then any
\* matching group permission allows.
checkPermissions(groupPerms, specialPerms, resourceType, operation) ==
    LET hits == {i \in 1..Len(specialPerms) :
                    matchPermission(specialPerms[i], resourceType, operation)}
    IN  IF hits # {} THEN specialPerms[Min(hits)].isGrant
        ELSE \E j \in 1..Len(groupPerms) :
                 matchPermission(groupPerms[j], resourceType, operation)

\* PermissionService.CheckPermission: the result and the error.
TagCheckPermission(u, resourceType, operation) ==
    IF GetByIDFails(u)
    THEN [has |-> FALSE, role |-> RoleGuest, err |-> FALSE]
    ELSE IF users[u].status # StatusNormal
    THEN [has |-> FALSE, role |-> users[u].role, err |-> FALSE]
    ELSE IF users[u].isSuperAdmin
    THEN [has |-> TRUE, role |-> RoleSuperAdmin, err |-> FALSE]
    ELSE IF ~hasBasePermission(users[u].role, operation)
    THEN [has |-> FALSE, role |-> users[u].role, err |-> FALSE]
    ELSE [has |-> checkPermissions(getUserGroupPermissions(u),
                                   GetActiveUserPermissions(u),
                                   resourceType, operation),
          role |-> users[u].role, err |-> FALSE]

\* ------------------------------------------------- tag system: the actions

\* UserPermissionDAO.GrantPermission
GrantPermission(u, tagId, operations, resourceType, scope, expiredAt) ==
    /\ storeUp
    /\ Len(userPermissions) < MaxOverlay
    /\ userPermissions' =
           Append(userPermissions,
                  UserPermission(u, tagId, operations, resourceType, scope, expiredAt))
    /\ last' = Call("GrantPermission", u, resourceType, "", FALSE, "", FALSE)
    /\ UNCHANGED <<inflight, cleanup, request>>
    /\ UNCHANGED <<users, userRoles, rolePermissions, groupMembers,
                   groupPermissions, now, storeUp>>

\* GetOne(user_id, permission_tag_id): the first live row of the pair.
OverlayRowsOf(u, tagId) ==
    {i \in 1..Len(userPermissions) :
        /\ ~userPermissions[i].deleted
        /\ userPermissions[i].userId = u
        /\ userPermissions[i].tagId = tagId}

\* The rows RevokePermission deletes: the one GetOne returned.
RevokedRows(u, tagId) == {Min(OverlayRowsOf(u, tagId))}

\* UserPermissionDAO.RevokePermission: GetOne, then a soft delete by id.
RevokePermission(u, tagId) ==
    /\ storeUp
    /\ IF OverlayRowsOf(u, tagId) = {}
       THEN /\ UNCHANGED userPermissions
            /\ last' = Call("RevokePermission", u, "", "", FALSE, "", TRUE)
       ELSE /\ userPermissions' =
                   [i \in 1..Len(userPermissions) |->
                       IF i \in RevokedRows(u, tagId)
                       THEN [userPermissions[i] EXCEPT !.deleted = TRUE]
                       ELSE userPermissions[i]]
            /\ last' = Call("RevokePermission", u, "", "", FALSE, "", FALSE)
    /\ UNCHANGED <<inflight, cleanup, request>>
    /\ UNCHANGED <<users, userRoles, rolePermissions, groupMembers,
                   groupPermissions, now, storeUp>>

\* BaseDAOImpl.Update(id, {"is_grant": false}) on user_permissions: the write
\* that turns a row into a revocation.
UpdateIsGrantFalse(id) ==
    /\ storeUp
    /\ id \in 1..Len(userPermissions)
    /\ ~userPermissions[id].deleted
    /\ userPermissions[id].isGrant
    /\ userPermissions' = [userPermissions EXCEPT ![id].isGrant = FALSE]
    /\ last' = Call("Update", userPermissions[id].userId, "", "", FALSE, "", FALSE)
    /\ UNCHANGED <<inflight, cleanup, request>>
    /\ UNCHANGED <<users, userRoles, rolePermissions, groupMembers,
                   groupPermissions, now, storeUp>>

\* UserPermissionDAO.CleanExpiredPermissions: every row GetExpiredPermissions
\* returned is soft-deleted by id.
CleanExpiredPermissions ==
    /\ storeUp
    /\ userPermissions' =
           [i \in 1..Len(userPermissions) |->
               IF i \in GetExpiredPermissions
               THEN [userPermissions[i] EXCEPT !.deleted = TRUE]
               ELSE userPermissions[i]]
    /\ last' = Call("CleanExpiredPermissions", 0, "", "", FALSE, "", FALSE)
    /\ UNCHANGED <<inflight, cleanup, request>>
    /\ UNCHANGED <<users, userRoles, rolePermissions, groupMembers,
                   groupPermissions, now, storeUp>>

\* A call of PermissionService.CheckPermission
CallTagCheckPermission(u, resourceType, operation) ==
    /\ LET res == TagCheckPermission(u, resourceType, operation)
       IN  last' = Call("TagCheckPermission", u, resourceType, operation,
                        res.has, res.role, res.err)
    /\ UNCHANGED <<inflight, cleanup, request>>
    /\ UNCHANGED <<users, userRoles, rolePermissions, userPermissions,
                   groupMembers, groupPermissions, now, storeUp>>

\* ------------------------------------------------ the tag specification

\* GrantPermission's arguments: tag, operations, resource type, scope.
GrantInputs == { <<1, OpsReadDelete, "content", "all">> }

\* The expirations a grant is given: none, and time 2.
ExpiryInputs == {ZeroTime, 2}

TagProfiles ==
    { <<StatusNormal, RoleGuest, FALSE>>, <<StatusNormal, RoleUser, FALSE>>,
      <<StatusNormal, RoleAdmin, FALSE>>,
      <<StatusNormal, RoleSuperAdmin, FALSE>>,
      <<StatusNormal, RoleSuperAdmin, TRUE>>,
      <<StatusDisabled, RoleAdmin, FALSE>> }

\* User 1 is a member of group 1, which may read, write and create content:
\* the store after AddUserToGroup(1, 1) and AddPermissionToGroup(1, ...).
InitTag ==
    /\ users = [u \in UserIds |-> IF u = 1 THEN NewUser ELSE NoUser]
    /\ userRoles = <<>>
    /\ rolePermissions = <<>>
    /\ userPermissions = <<>>
    /\ groupMembers = <<UserGroupMember(1, 1)>>
    /\ groupPermissions =
           <<UserGroupPermission(1, 1, OpsReadWriteCreate, "content", "all")>>
    /\ now = 1
    /\ storeUp = TRUE
    /\ last = NoCall
    /\ inflight = [p \in Procs |-> Idle]
    /\ cleanup = NotScheduled
    /\ request = NoRequest

NextTag ==
    \/ \E g \in GrantInputs, e \in ExpiryInputs :
           GrantPermission(1, g[1], g[2], g[3], g[4], e)
    \/ \E t \in {1, 2} : RevokePermission(1, t)
    \/ \E id \in 1..MaxOverlay : UpdateIsGrantFalse(id)
    \/ CleanExpiredPermissions
    \/ Tick
    \/ \E p \in TagProfiles : UpdateUser(1, p[1], p[2], p[3])
    \/ \E o \in ReqOperations : CallTagCheckPermission(1, "content", o)

SpecTag == InitTag /\ [][NextTag]_vars
\* ------------------------------------------ the assignment specification

\* The lifetimes GrantTemporaryRole is called with.
Durations == {1}

AssignRoles == {RoleUser, RoleVIP, UnknownRole}

InitAssign ==
    /\ users = [u \in UserIds |-> NewUser]
    /\ userRoles = <<>>
    /\ rolePermissions = <<>>
    /\ userPermissions = <<>>
    /\ groupMembers = <<>>
    /\ groupPermissions = <<>>
    /\ now = 1
    /\ storeUp = TRUE
    /\ last = NoCall
    /\ inflight = [p \in Procs |-> Idle]
    /\ cleanup = NotScheduled
    /\ request = NoRequest

NextAssign ==
    \/ \E u \in UserIds, r \in AssignRoles : SetUserRole(u, r)
    \/ \E u \in UserIds, r \in AssignRoles, d \in Durations :
           GrantTemporaryRole(u, r, d)
    \/ \E u \in UserIds : RevokeRole(u)
    \/ \E u \in UserIds : CallGetUserRole(u)
    \/ Tick

SpecAssign == InitAssign /\ [][NextAssign]_vars
\* ------------------------------------------------ the race specification
\* SetUserRole is two statements, the First that looks for an active row and
\* the Create or Update that follows; another goroutine's statement may come
\* between them. GrantTemporaryRole and RevokeRole are one statement each.

\* SetUserRole, first statement: First(user_id, is_active = true).
BeginSetUserRole(p, u, role) ==
    /\ storeUp
    /\ inflight[p] = Idle
    /\ inflight' = [inflight EXCEPT ![p] =
                       [op |-> "SetUserRole", rt |-> "", oper |-> "",
                        user |-> u, role |-> role,
                        found |-> ActiveRoleRows(u) # {}, ids |-> <<>>,
                        members |-> <<>>]]
    /\ last' = NoCall
    /\ UNCHANGED <<cleanup, request, users, userRoles, rolePermissions, userPermissions,
                   groupMembers, groupPermissions, now, storeUp>>

\* SetUserRole, second statement: Create when First found no row, Update of
\* the rows active now when it found one.
FinishSetUserRole(p) ==
    /\ storeUp
    /\ inflight[p].op = "SetUserRole"
    /\ LET u == inflight[p].user
           role == inflight[p].role
       IN  IF ~inflight[p].found
           THEN IF UserRoleCreateFails(u)
                THEN /\ UNCHANGED userRoles
                     /\ last' = Call("SetUserRole", u, "", "", FALSE, role, TRUE)
                ELSE /\ userRoles' = Append(userRoles, UserRole(u, role, ZeroTime))
                     /\ last' = Call("SetUserRole", u, "", "", FALSE, role, FALSE)
           ELSE /\ userRoles' =
                       [i \in 1..Len(userRoles) |->
                           IF i \in ActiveRoleRows(u)
                           THEN [userRoles[i] EXCEPT !.role = role]
                           ELSE userRoles[i]]
                /\ last' = Call("SetUserRole", u, "", "", FALSE, role, FALSE)
    /\ inflight' = [inflight EXCEPT ![p] = Idle]
    /\ UNCHANGED <<cleanup, request, users, rolePermissions, userPermissions, groupMembers,
                   groupPermissions, now, storeUp>>

RaceRoles == {RoleUser, RoleVIP}

NextRace ==
    \/ \E p \in Procs, u \in UserIds, r \in RaceRoles : BeginSetUserRole(p, u, r)
    \/ \E p \in Procs : FinishSetUserRole(p)
    \/ \E u \in UserIds, d \in Durations : GrantTemporaryRole(u, RoleVIP, d)
    \/ \E u \in UserIds : RevokeRole(u)

SpecRace == InitAssign /\ [][NextRace]_vars

\* C17: in every state reached by interleaved SetUserRole, GrantTemporaryRole
\* and RevokeRole calls each user has at most one active assignment row.
C17_AtMostOneActiveRow ==
    \A u \in UserIds : Cardinality(ActiveRoleRows(u)) <= 1

\* A SetUserRole for user 1 raced with another write: it looked and found no
\* active row, another call created one, and its own Create has just failed.
C17_Witness ==
    /\ last.op = "SetUserRole" /\ last.user = 1 /\ last.err
    /\ ActiveRoleRows(1) # {}
    /\ \A p \in Procs : inflight[p] = Idle

\* ----------------------------------------------- the sweep specification
\* CleanExpiredPermissions is a query followed by one Delete per row it
\* returned; statements of another goroutine's sweep may come in between.

\* The ids of a query result, in primary-key order.
RECURSIVE SortedSeq(_)
SortedSeq(S) ==
    IF S = {} THEN <<>> ELSE <<Min(S)>> \o SortedSeq(S \ {Min(S)})

\* CleanExpiredPermissions, first statement: GetExpiredPermissions.
BeginSweep(p) ==
    /\ storeUp
    /\ inflight[p] = Idle
    /\ inflight' = [inflight EXCEPT ![p] =
                       [op |-> "Sweep", rt |-> "", oper |-> "",
                        user |-> 0, role |-> "", found |-> FALSE,
                        ids |-> SortedSeq(GetExpiredPermissions),
                        members |-> <<>>]]
    /\ last' = NoCall
    /\ UNCHANGED <<cleanup, request, users, userRoles, rolePermissions, userPermissions,
                   groupMembers, groupPermissions, now, storeUp>>

\* CleanExpiredPermissions, the loop: BaseDAOImpl.Delete of the next id, which
\* returns ErrRecordNotFound when it affects no row; the sweep returns the
\* first error, and nil when the list is done.
StepSweep(p) ==
    /\ storeUp
    /\ inflight[p].op = "Sweep"
    /\ IF inflight[p].ids = <<>>
       THEN /\ inflight' = [inflight EXCEPT ![p] = Idle]
            /\ last' = Call("CleanExpiredPermissions", p, "", "", FALSE, "", FALSE)
            /\ UNCHANGED userPermissions
       ELSE IF userPermissions[Head(inflight[p].ids)].deleted
       THEN /\ inflight' = [inflight EXCEPT ![p] = Idle]
            /\ last' = Call("CleanExpiredPermissions", p, "", "", FALSE, "", TRUE)
            /\ UNCHANGED userPermissions
       ELSE /\ userPermissions' =
                   [userPermissions EXCEPT ![Head(inflight[p].ids)].deleted = TRUE]
            /\ inflight' = [inflight EXCEPT ![p].ids = Tail(inflight[p].ids)]
            /\ last' = NoCall
    /\ UNCHANGED <<cleanup, request, users, userRoles, rolePermissions, groupMembers,
                   groupPermissions, now, storeUp>>

NextSweep ==
    \/ \E g \in GrantInputs, e \in ExpiryInputs :
           GrantPermission(1, g[1], g[2], g[3], g[4], e)
    \/ Tick
    \/ \E p \in Procs : BeginSweep(p)
    \/ \E p \in Procs : StepSweep(p)

SpecSweep == InitTag /\ [][NextSweep]_vars

\* ------------------------------------------- the scheduler specification
\* SchedulePermissionCleanup: a goroutine that selects between ticker.C and
\* ctx.Done(), and runs CleanupExpiredPermissions with the same ctx on a tick.

ctxErr_Never == FALSE

\* d.DB.WithContext(ctx): a statement issued on a context that is already
\* done fails with the context's error and touches no row.
ctxErr == cleanup.cancelled

SweepReturn(err) == Call("CleanupExpiredPermissions", 0, "", "", FALSE, "", err)

\* time.NewTicker: a tick is delivered into ticker.C (capacity one) until the
\* deferred ticker.Stop() runs.
TickerFires ==
    /\ cleanup.pc # "returned"
    /\ ~cleanup.tick
    /\ cleanup' = [cleanup EXCEPT !.tick = TRUE]
    /\ UNCHANGED <<users, userRoles, rolePermissions, userPermissions,
                   groupMembers, groupPermissions, now, storeUp, last, inflight,
                   request>>

\* The owner of ctx cancels it.
CancelCtx ==
    /\ ~cleanup.cancelled
    /\ cleanup' = [cleanup EXCEPT !.cancelled = TRUE]
    /\ UNCHANGED <<users, userRoles, rolePermissions, userPermissions,
                   groupMembers, groupPermissions, now, storeUp, last, inflight,
                   request>>

\* select, case <-ticker.C: chosen whenever a tick is waiting, whether or not
\* ctx.Done() is ready as well.
SelectTick ==
    /\ cleanup.pc = "select"
    /\ cleanup.tick
    /\ cleanup' = [cleanup EXCEPT !.pc = "query", !.tick = FALSE,
                                  !.late = cleanup.cancelled]
    /\ UNCHANGED <<users, userRoles, rolePermissions, userPermissions,
                   groupMembers, groupPermissions, now, storeUp, last, inflight,
                   request>>

\* select, case <-ctx.Done(): the loop returns.
SelectDone ==
    /\ cleanup.pc = "select"
    /\ cleanup.cancelled
    /\ cleanup' = [cleanup EXCEPT !.pc = "returned"]
    /\ UNCHANGED <<users, userRoles, rolePermissions, userPermissions,
                   groupMembers, groupPermissions, now, storeUp, last, inflight,
                   request>>

\* CleanExpiredPermissions under the scheduler's ctx, first statement: the
\* query; its error ends the sweep and is logged by the loop.
CleanupQuery ==
    /\ cleanup.pc = "query"
    /\ IF ctxErr \/ ~storeUp
       THEN /\ cleanup' = [cleanup EXCEPT !.pc = "select"]
            /\ last' = SweepReturn(TRUE)
       ELSE /\ cleanup' = [cleanup EXCEPT !.pc = "delete",
                                         !.ids = SortedSeq(GetExpiredPermissions)]
            /\ UNCHANGED last
    /\ UNCHANGED <<users, userRoles, rolePermissions, userPermissions,
                   groupMembers, groupPermissions, now, storeUp, inflight,
                   request>>

\* CleanExpiredPermissions under the scheduler's ctx, the loop: one Delete,
\* or the return when the list is done or a Delete failed.
CleanupDelete ==
    /\ cleanup.pc = "delete"
    /\ IF cleanup.ids = <<>>
       THEN /\ cleanup' = [cleanup EXCEPT !.pc = "select"]
            /\ last' = SweepReturn(FALSE)
            /\ UNCHANGED userPermissions
       ELSE IF ctxErr \/ ~storeUp \/ userPermissions[Head(cleanup.ids)].deleted
       THEN /\ cleanup' = [cleanup EXCEPT !.pc = "select", !.ids = <<>>]
            /\ last' = SweepReturn(TRUE)
            /\ UNCHANGED userPermissions
       ELSE /\ userPermissions' =
                   [userPermissions EXCEPT ![Head(cleanup.ids)].deleted = TRUE]
            /\ cleanup' = [cleanup EXCEPT !.ids = Tail(cleanup.ids)]
            /\ UNCHANGED last
    /\ UNCHANGED <<users, userRoles, rolePermissions, groupMembers,
                   groupPermissions, now, storeUp, inflight,
                   request>>

NextCleanup ==
    \/ \E g \in GrantInputs, e \in ExpiryInputs :
           GrantPermission(1, g[1], g[2], g[3], g[4], e)
    \/ Tick
    \/ TickerFires
    \/ CancelCtx
    \/ SelectTick
    \/ SelectDone
    \/ CleanupQuery
    \/ CleanupDelete

\* The goroutine keeps running (weak fairness of its steps); select picks
\* uniformly at random among the ready cases, so a case that is ready again and
\* again is eventually taken (strong fairness of the Done case).
SpecCleanup ==
    /\ InitTag
    /\ [][NextCleanup]_vars
    /\ WF_vars(SelectTick \/ CleanupQuery \/ CleanupDelete)
    /\ SF_vars(SelectDone)

\* --------------------------------------------- the scope specification
\* The tag service driven with grants of every scope value.

ScopeValues == {"all", "own", "system", "public"}

NextScope ==
    \/ \E sc \in ScopeValues : GrantPermission(1, 1, OpsReadDelete, "content", sc, 2)
    \/ \E id \in 1..MaxOverlay : UpdateIsGrantFalse(id)
    \/ Tick
    \/ \E p \in TagProfiles : UpdateUser(1, p[1], p[2], p[3])
    \/ \E o \in ReqOperations : CallTagCheckPermission(1, "content", o)

SpecScope == InitTag /\ [][NextScope]_vars

\* ------------------------------------------- the middleware specification
\* A request runs through the middlewares of its route in order; each either
\* calls c.Next() or writes an error response and c.Abort()s.

\* hasRequiredRole with a strict comparison of the levels.
hasRequiredRole_Strict(userRole, requiredRole) ==
    LET roleLevels == [r \in Roles |->
                          CASE r = RoleGuest -> 1 [] r = RoleUser -> 2
                            [] r = RoleVIP -> 3 [] r = RoleAdmin -> 4
                            [] r = RoleSuperAdmin -> 5]
    IN  /\ userRole \in DOMAIN roleLevels
        /\ requiredRole \in DOMAIN roleLevels
        /\ roleLevels[userRole] > roleLevels[requiredRole]

\* SimplifiedPermissionMiddleware.hasRequiredRole
hasRequiredRole(userRole, requiredRole) ==
    LET roleLevels == [r \in Roles |->
                          CASE r = RoleGuest -> 1 [] r = RoleUser -> 2
                            [] r = RoleVIP -> 3 [] r = RoleAdmin -> 4
                            [] r = RoleSuperAdmin -> 5]
    IN  /\ userRole \in DOMAIN roleLevels
        /\ requiredRole \in DOMAIN roleLevels
        /\ roleLevels[userRole] >= roleLevels[requiredRole]

\* PermissionMiddleware.RequireAdmin, RequireSuperAdmin, RequireVIP: the role
\* test each of them makes.
TagRequireAdmin(role) == role = RoleAdmin \/ role = RoleSuperAdmin

TagRequireSuperAdmin(role) == role = RoleSuperAdmin

TagRequireVIP(role) ==
    role = RoleVIP \/ role = RoleAdmin \/ role = RoleSuperAdmin

Mw(name, a, b) == [mw |-> name, a |-> a, b |-> b]

\* The routes requests are sent to: the usage guide's admin route behind the
\* authentication, and routes with a permission check before the role gate.
Routes ==
    [guideAdmin |-> <<Mw("JWTAuth", "", ""), Mw("RequireRole", RoleAdmin, "")>>,
     checkedVIP |-> <<Mw("JWTAuth", "", ""),
                      Mw("CheckPermission", "content", PermissionRead),
                      Mw("RequireRole", RoleVIP, "")>>,
     checkedAdmin |-> <<Mw("JWTAuth", "", ""),
                        Mw("CheckPermission", "content", PermissionRead),
                        Mw("RequireRole", RoleAdmin, "")>>,
     checkedSuper |-> <<Mw("JWTAuth", "", ""),
                        Mw("CheckPermission", "content", PermissionRead),
                        Mw("RequireRole", RoleSuperAdmin, "")>>,
     tagVIP |-> <<Mw("JWTAuth", "", ""),
                  Mw("TagCheckPermission", "content", PermissionRead),
                  Mw("TagRequireVIP", "", "")>>,
     tagAdmin |-> <<Mw("JWTAuth", "", ""),
                    Mw("TagCheckPermission", "content", PermissionRead),
                    Mw("TagRequireAdmin", "", "")>>,
     tagSuper |-> <<Mw("JWTAuth", "", ""),
                    Mw("TagCheckPermission", "content", PermissionRead),
                    Mw("TagRequireSuperAdmin", "", "")>>]

\* A request arrives for a route; cred is the user its bearer token names, 0
\* when the header is missing or the token does not parse.
NewRequest(route, cred) ==
    /\ request.stage # "chain"
    /\ request' = [NoRequest EXCEPT !.stage = "chain", !.route = route,
                                    !.chain = Routes[route], !.cred = cred]
    /\ last' = NoCall
    /\ UNCHANGED <<users, userRoles, rolePermissions, userPermissions,
                   groupMembers, groupPermissions, now, storeUp, inflight,
                   cleanup>>

Abort(status) ==
    [request EXCEPT !.stage = "aborted", !.chain = <<>>, !.status = status]

\* c.Next(): on to the next middleware, or to the handler after the last one.
Proceed(ctx) ==
    IF Len(ctx.chain) = 1
    THEN [ctx EXCEPT !.stage = "handler", !.chain = <<>>, !.status = 200]
    ELSE [ctx EXCEPT !.chain = Tail(ctx.chain)]

\* The gates: RequireRole of the simplified middleware (login, then the
\* "user_role" key, then hasRequiredRole) and RequireAdmin, RequireSuperAdmin,
\* RequireVIP of the tag middleware (the key, then the role test).
GateResult(m) ==
    IF m.mw = "RequireRole" /\ request.userId = 0 THEN Abort(401)
    ELSE IF ~request.hasUserRole THEN Abort(403)
    ELSE IF CASE m.mw = "RequireRole" -> hasRequiredRole(request.userRole, m.a)
              [] m.mw = "TagRequireAdmin" -> TagRequireAdmin(request.userRole)
              [] m.mw = "TagRequireSuperAdmin" ->
                     TagRequireSuperAdmin(request.userRole)
              [] m.mw = "TagRequireVIP" -> TagRequireVIP(request.userRole)
    THEN Proceed(request)
    ELSE Abort(403)

\* CheckPermission of either middleware: the service's decision for the user
\* id of the context (0 when the key is not set); on allow it sets "user_role".
CheckResult(m) ==
    LET res == IF m.mw = "CheckPermission"
               THEN SimplifiedCheckPermission(request.userId, m.a, m.b)
               ELSE TagCheckPermission(request.userId, m.a, m.b)
    IN  IF res.err THEN Abort(500)
        ELSE IF ~res.has THEN Abort(403)
        ELSE Proceed([request EXCEPT !.hasUserRole = TRUE,
                                     !.userRole = res.role])

\* JWTAuth: sets "user_id", "username" and "role" from the token's claims.
JWTAuthResult ==
    IF request.cred = 0 THEN Abort(401)
    ELSE Proceed([request EXCEPT !.hasUserId = TRUE, !.userId = request.cred])

\* The next middleware of the chain runs.
StepMiddleware ==
    /\ request.stage = "chain"
    /\ LET m == Head(request.chain)
       IN  request' =
               CASE m.mw = "JWTAuth" -> JWTAuthResult
                 [] m.mw \in {"CheckPermission", "TagCheckPermission"} ->
                        CheckResult(m)
                 [] OTHER -> GateResult(m)
    /\ last' = NoCall
    /\ UNCHANGED <<users, userRoles, rolePermissions, userPermissions,
                   groupMembers, groupPermissions, now, storeUp, inflight,
                   cleanup>>

NextGate ==
    \/ InitializeDefaultPermissions
    \/ \E r \in Roles : SetUserRole(1, r)
    \/ \E p \in TagProfiles : UpdateUser(1, p[1], p[2], p[3])
    \/ \E route \in DOMAIN Routes, cred \in {0, 1} : NewRequest(route, cred)
    \/ StepMiddleware

SpecGate == InitTag /\ [][NextGate]_vars

\* ------------------------------------------- the transfer specification
\* TransferUserGroups runs outside a transaction: every Delete and Create of
\* it is visible to a CheckPermission of another goroutine as soon as it is
\* made.

\* The roles users are moved between.
TransferRoles == {RoleUser, RoleVIP, RoleAdmin}

\* CreateDefaultGroups creates the default groups in this order, so these are
\* their ids; AssignDefaultGroups picks the group of the role by its name.
DefaultGroupOf(role) ==
    CASE role = RoleGuest -> 1 [] role = RoleUser -> 2 [] role = RoleVIP -> 3
      [] role = RoleAdmin -> 4 [] role = RoleSuperAdmin -> 5

\* The groups the user is an active member of.
ActiveGroups(u) == {groupMembers[i].groupId : i \in GetUserGroups(u)}

\* TransferUserGroups going to the assignment without removing anything.
BeginTransfer_NoRemoval(p, u, newRole) ==
    /\ storeUp
    /\ \A q \in Procs : inflight[q] = Idle
    /\ inflight' = [inflight EXCEPT ![p] =
                       [op |-> "Assign", rt |-> "", oper |-> "",
                        user |-> u, role |-> newRole,
                        found |-> FALSE, ids |-> <<>>,
                        members |-> SortedSeq(GetUserGroups(u))]]
    /\ last' = NoCall
    /\ UNCHANGED <<cleanup, request, users, userRoles, rolePermissions,
                   userPermissions, groupMembers, groupPermissions, now, storeUp>>

\* TransferUserGroups, first statement: RemoveUserFromAllGroups' query.
BeginTransfer(p, u, newRole) ==
    /\ storeUp
    /\ \A q \in Procs : inflight[q] = Idle
    /\ inflight' = [inflight EXCEPT ![p] =
                       [op |-> "Remove", rt |-> "", oper |-> "",
                        user |-> u, role |-> newRole,
                        found |-> FALSE,
                        ids |-> SortedSeq(GetUserGroups(u)),
                        members |-> SortedSeq(GetUserGroups(u))]]
    /\ last' = NoCall
    /\ UNCHANGED <<cleanup, request, users, userRoles, rolePermissions,
                   userPermissions, groupMembers, groupPermissions, now, storeUp>>

\* RemoveUserFromAllGroups, the loop: one soft Delete; an error of it is the
\* error of the transfer. When the list is done the assignment follows.
TransferRemove(p) ==
    /\ inflight[p].op = "Remove"
    /\ IF inflight[p].ids = <<>>
       THEN /\ inflight' = [inflight EXCEPT ![p].op = "Assign"]
            /\ last' = NoCall
            /\ UNCHANGED groupMembers
       ELSE IF ~storeUp \/ groupMembers[Head(inflight[p].ids)].deleted
       THEN /\ inflight' = [inflight EXCEPT ![p] = Idle]
            /\ last' = Call("TransferUserGroups", inflight[p].user, "", "", FALSE,
                            inflight[p].role, TRUE)
            /\ UNCHANGED groupMembers
       ELSE /\ groupMembers' =
                   [groupMembers EXCEPT ![Head(inflight[p].ids)].deleted = TRUE]
            /\ inflight' = [inflight EXCEPT ![p].ids = Tail(inflight[p].ids)]
            /\ last' = NoCall
    /\ UNCHANGED <<cleanup, request, users, userRoles, rolePermissions,
                   userPermissions, groupPermissions, now, storeUp>>

\* AssignDefaultGroups: AddUserToGroup for the default group of the role.
\* Exists counts the live rows of (user, group); the Create fails on the
\* unique index idx_user_group when a soft-deleted row of the pair is there.
TransferAssign(p) ==
    /\ inflight[p].op = "Assign"
    /\ LET u == inflight[p].user
           g == DefaultGroupOf(inflight[p].role)
           rows == {i \in 1..Len(groupMembers) :
                       /\ groupMembers[i].userId = u
                       /\ groupMembers[i].groupId = g}
           exists == \E i \in rows : ~groupMembers[i].deleted
       IN  IF ~storeUp \/ (~exists /\ rows # {})
           THEN /\ UNCHANGED groupMembers
                /\ last' = Call("TransferUserGroups", u, "", "", FALSE,
                                inflight[p].role, TRUE)
           ELSE /\ groupMembers' = IF exists THEN groupMembers
                                   ELSE Append(groupMembers, UserGroupMember(u, g))
                /\ last' = Call("TransferUserGroups", u, "", "", FALSE,
                                inflight[p].role, FALSE)
    /\ inflight' = [inflight EXCEPT ![p] = Idle]
    /\ UNCHANGED <<cleanup, request, users, userRoles, rolePermissions,
                   userPermissions, groupPermissions, now, storeUp>>

\* UpdateMemberStatus: a membership is disabled or enabled again.
UpdateMemberStatus(u, g, status) ==
    /\ storeUp
    /\ \A q \in Procs : inflight[q] = Idle
    /\ \E i \in 1..Len(groupMembers) :
           /\ ~groupMembers[i].deleted
           /\ groupMembers[i].userId = u
           /\ groupMembers[i].groupId = g
           /\ groupMembers' = [groupMembers EXCEPT ![i].status = status]
    /\ last' = NoCall
    /\ UNCHANGED <<inflight, cleanup, request>>
    /\ UNCHANGED <<users, userRoles, rolePermissions, userPermissions,
                   groupPermissions, now, storeUp>>

NextTransfer ==
    \/ \E p \in Procs, r \in TransferRoles : BeginTransfer(p, 1, r)
    \/ \E p \in Procs : TransferRemove(p)
    \/ \E p \in Procs : TransferAssign(p)
    \/ \E g \in {1, 2}, st \in {StatusNormal, StatusDisabled} :
           UpdateMemberStatus(1, g, st)
    \/ \E pr \in TagProfiles : UpdateUser(1, pr[1], pr[2], pr[3])
    \/ \E o \in ReqOperations : CallTagCheckPermission(1, "content", o)

SpecTransfer == InitTag /\ [][NextTransfer]_vars

\* ------------------------------------------ the check-race specification
\* SimplifiedPermissionService.CheckPermission of an existing, active user
\* reads the role twice: inside UnifiedPermissionDAO.CheckPermission, which
\* computes the decision, and again with GetUserRole for the result. A role
\* write of another goroutine may come between the two.

\* CheckPermission up to and including the DAO's CheckPermission: found is
\* hasPermission, role the role the DAO resolved and decided under.
BeginCheck(p, u, resourceType, operation) ==
    /\ storeUp
    /\ users[u].exists
    /\ users[u].status = StatusNormal
    /\ inflight[p] = Idle
    /\ inflight' = [inflight EXCEPT ![p] =
                       [Idle EXCEPT !.op = "CheckPermission",
                                    !.rt = resourceType, !.oper = operation,
                                    !.user = u,
                                    !.role = GetUserRole(u).role,
                                    !.found = DAOCheckPermission(
                                                  u, resourceType, operation).has]]
    /\ last' = NoCall
    /\ UNCHANGED <<cleanup, request, users, userRoles, rolePermissions,
                   userPermissions, groupMembers, groupPermissions, now, storeUp>>

\* CheckPermission from its GetUserRole call to the return of the result.
FinishCheck(p) ==
    /\ inflight[p].op = "CheckPermission"
    /\ LET r == GetUserRole(inflight[p].user)
       IN  last' = IF r.err
                   THEN Call("SimplifiedCheckPermission", inflight[p].user,
                             inflight[p].rt, inflight[p].oper, FALSE, "", TRUE)
                   ELSE Call("SimplifiedCheckPermission", inflight[p].user,
                             inflight[p].rt, inflight[p].oper, inflight[p].found,
                             r.role, FALSE)
    /\ inflight' = [inflight EXCEPT ![p] = Idle]
    /\ UNCHANGED <<cleanup, request, users, userRoles, rolePermissions,
                   userPermissions, groupMembers, groupPermissions, now, storeUp>>

NextCheckRace ==
    \/ InitializeDefaultPermissions
    \/ \E r \in {RoleUser, RoleAdmin} : SetUserRole(1, r)
    \/ RevokeRole(1)
    \/ \E p \in Procs, o \in {PermissionRead, PermissionWrite} :
           BeginCheck(p, 1, "content", o)
    \/ \E p \in Procs : FinishCheck(p)

SpecCheckRace == Init /\ [][NextCheckRace]_vars

\* ------------------------------------------- the seed-race specification
\* InitializeDefaultPermissions is a loop of two statements per default: the
\* count of checkPermissionExists and the Create that follows when the count
\* is zero. Two calls on the same store may interleave statement by statement.

\* InitializeDefaultPermissions entered: the loop is at the first default.
BeginSeed(p) ==
    /\ storeUp
    /\ inflight[p] = Idle
    /\ inflight' = [inflight EXCEPT ![p] =
                       [Idle EXCEPT !.op = "SeedCheck", !.ids = <<1>>]]
    /\ last' = NoCall
    /\ UNCHANGED <<cleanup, request, users, userRoles, rolePermissions,
                   userPermissions, groupMembers, groupPermissions, now, storeUp>>

\* The loop's checkPermissionExists for the default it is at, or the return
\* when the defaults are done.
SeedCheck(p) ==
    /\ storeUp
    /\ inflight[p].op = "SeedCheck"
    /\ LET k == inflight[p].ids[1]
       IN  IF k > Len(DefaultPermissions)
           THEN /\ inflight' = [inflight EXCEPT ![p] = Idle]
                /\ last' = Call("InitializeDefaultPermissions", 0, "", "", FALSE,
                                "", FALSE)
           ELSE /\ inflight' =
                       [inflight EXCEPT
                           ![p].op = "SeedCreate",
                           ![p].found =
                               checkPermissionExists(
                                   rolePermissions, DefaultPermissions[k].role,
                                   DefaultPermissions[k].resourceType)]
                /\ last' = NoCall
    /\ UNCHANGED <<cleanup, request, users, userRoles, rolePermissions,
                   userPermissions, groupMembers, groupPermissions, now, storeUp>>

\* The loop's Create when the count was zero, and the step to the next default.
SeedCreate(p) ==
    /\ storeUp
    /\ inflight[p].op = "SeedCreate"
    /\ LET k == inflight[p].ids[1]
       IN  /\ rolePermissions' =
                  IF inflight[p].found THEN rolePermissions
                  ELSE Append(rolePermissions, DefaultPermissions[k])
           /\ inflight' = [inflight EXCEPT ![p].op = "SeedCheck",
                                           ![p].found = FALSE,
                                           ![p].ids = <<k + 1>>]
    /\ last' = NoCall
    /\ UNCHANGED <<cleanup, request, users, userRoles, userPermissions,
                   groupMembers, groupPermissions, now, storeUp>>

NextSeedRace ==
    \/ \E p \in Procs : BeginSeed(p)
    \/ \E p \in Procs : SeedCheck(p)
    \/ \E p \in Procs : SeedCreate(p)

SpecSeedRace == Init /\ [][NextSeedRace]_vars

\* ------------------------------------------------------------ the claims

\* C1: for every resource type and operation and every permission table, a
\* check for an existing, active user whose resolved role is superadmin
\* allows. The role-string service resolves the role from user_roles; the tag
\* service reports the resolved role in its result.
C1_SuperadminAllowed ==
    \A u \in UserIds, rt \in ReqResourceTypes, op \in ReqOperations :
        LET s == SimplifiedCheckPermission(u, rt, op)
            t == TagCheckPermission(u, rt, op)
            active == storeUp /\ users[u].exists /\ users[u].status = StatusNormal
        IN  /\ (active /\ ~s.err /\ s.role = RoleSuperAdmin) => s.has
            /\ (active /\ ~t.err /\ t.role = RoleSuperAdmin) => t.has

\* The group permissions of a user would allow the request on their own.
GroupAllows(u, rt, op) ==
    /\ hasBasePermission(users[u].role, op)
    /\ \E j \in 1..Len(getUserGroupPermissions(u)) :
           matchPermission(getUserGroupPermissions(u)[j], rt, op)

\* The live, unexpired overlay rows of a user that cover the request and
\* carry the given is-grant value.
CoveringOverlayRows(u, rt, op, isGrant) ==
    {i \in 1..Len(userPermissions) :
        /\ ~userPermissions[i].deleted
        /\ userPermissions[i].userId = u
        /\ userPermissions[i].isGrant = isGrant
        /\ userPermissions[i].expiredAt > now
        /\ userPermissions[i].resourceType = rt
        /\ containsOperation(userPermissions[i].operations, op)}

\* C2: when an active user who is no superadmin has a group permission that
\* allows (resourceType, op) and an unexpired overlay row with is-grant false
\* for the same resource type covering op, the check denies.
C2_OverlayDenyWins ==
    \A u \in UserIds, rt \in ReqResourceTypes, op \in ReqOperations :
        ( /\ users[u].exists
          /\ users[u].status = StatusNormal
          /\ ~users[u].isSuperAdmin
          /\ users[u].role # RoleSuperAdmin
          /\ GroupAllows(u, rt, op)
          /\ CoveringOverlayRows(u, rt, op, FALSE) # {} )
        => ~TagCheckPermission(u, rt, op).has

\* C3: for an existing, active user of any role, an unexpired overlay row
\* with is-grant true that matches the resource type and covers the operation
\* makes the check allow, whatever the role permits.
C3_OverlayGrantAllows ==
    \A u \in UserIds, rt \in ReqResourceTypes, op \in ReqOperations :
        ( /\ users[u].exists
          /\ users[u].status = StatusNormal
          /\ CoveringOverlayRows(u, rt, op, TRUE) # {} )
        => TagCheckPermission(u, rt, op).has

\* C4: while the store is unreachable no check allows, and every check
\* surfaces the failure as an error.
C4_FailClosed ==
    ~storeUp =>
        \A u \in UserIds, rt \in ReqResourceTypes, op \in ReqOperations :
            /\ ~SimplifiedCheckPermission(u, rt, op).has
            /\ SimplifiedCheckPermission(u, rt, op).err
            /\ ~TagCheckPermission(u, rt, op).has
            /\ TagCheckPermission(u, rt, op).err

C6_TemporaryRoleExpires ==
    \A i \in 1..Len(userRoles) :
        (userRoles[i].isActive /\ userRoles[i].expiredAt # ZeroTime) =>
            /\ now < userRoles[i].expiredAt =>
                   GetUserRole(userRoles[i].userId).role = userRoles[i].role
            /\ now > userRoles[i].expiredAt =>
                   GetUserRole(userRoles[i].userId).role = RoleGuest

\* C7: a sweep that deletes rows changes neither GetActiveUserPermissions nor
\* the decision of any check: the expired rows it deletes were matched by no
\* read. (A sweep that deletes nothing leaves every variable as it was.)
C7_SweepChangesNoDecision ==
    [][ (last'.op = "CleanExpiredPermissions" /\ userPermissions' # userPermissions) =>
            \A u \in UserIds :
                /\ GetActiveUserPermissions(u)' = GetActiveUserPermissions(u)
                /\ \A rt \in ReqResourceTypes, op \in ReqOperations :
                       TagCheckPermission(u, rt, op)' = TagCheckPermission(u, rt, op)
      ]_vars

\* A sweep has run and an expired grant of an active admin is deleted, every
\* deleted row being an expired one.
C7_Witness ==
    /\ last.op = "CleanExpiredPermissions"
    /\ users[1].status = StatusNormal
    /\ users[1].role = RoleAdmin
    /\ \E i \in 1..Len(userPermissions) :
           /\ userPermissions[i].deleted
           /\ userPermissions[i].isGrant
           /\ userPermissions[i].resourceType = "content"
           /\ userPermissions[i].expiredAt # ZeroTime
           /\ userPermissions[i].expiredAt <= now
    /\ \A i \in 1..Len(userPermissions) :
           userPermissions[i].deleted => userPermissions[i].expiredAt <= now

\* C8: a live grant stored with the unset expiration is among the rows
\* GetActiveUserPermissions returns, at every time, and no sweep selects it.
C8_NoExpirationStaysActive ==
    \A i \in 1..Len(userPermissions) :
        ( /\ ~userPermissions[i].deleted
          /\ userPermissions[i].isGrant
          /\ userPermissions[i].expiredAt = ZeroTime )
        => /\ \E k \in 1..Len(GetActiveUserPermissions(userPermissions[i].userId)) :
                  GetActiveUserPermissions(userPermissions[i].userId)[k]
                      = userPermissions[i]
           /\ i \notin GetExpiredPermissions

\* C9: after a successful RevokePermission no active overlay row of the user
\* and tag of the deleted row remains.
C9_RevokeRemovesAll ==
    [][ (last'.op = "RevokePermission" /\ ~last'.err) =>
            \A i \in 1..Len(userPermissions) :
                (~userPermissions[i].deleted /\ userPermissions'[i].deleted) =>
                    \A k \in 1..Len(GetActiveUserPermissions(userPermissions[i].userId)') :
                        GetActiveUserPermissions(userPermissions[i].userId)'[k].tagId
                            # userPermissions[i].tagId
      ]_vars

\* The rows a table holds for a (role, resourceType) pair.
PairCount(table, role, resourceType) ==
    Cardinality({i \in 1..Len(table) :
                    table[i].role = role /\ table[i].resourceType = resourceType})

\* C10: after InitializeDefaultPermissions has run, from whatever table, a
\* further run leaves the table as it is, and the run gave no pair of the
\* default table a second row: a pair that had rows keeps their number, a pair
\* that had none has one.
C10_SeedingIdempotent ==
    [][ last'.op = "InitializeDefaultPermissions" =>
            /\ SeedResult(rolePermissions') = rolePermissions'
            /\ \A k \in 1..Len(DefaultPermissions) :
                   LET d == DefaultPermissions[k]
                       before == PairCount(rolePermissions, d.role, d.resourceType)
                   IN  PairCount(rolePermissions', d.role, d.resourceType)
                           = IF before = 0 THEN 1 ELSE before
      ]_vars

\* Seeding has run on a table that held an added row and holds every default.
C10_Witness ==
    /\ last.op = "InitializeDefaultPermissions"
    /\ AddedRows(rolePermissions) # {}
    /\ Len(rolePermissions) = Len(DefaultPermissions) + 1
\* The seed table: InitializeDefaultPermissions on the empty table.
SeedTable == SeedResult(<<>>)

\* User u is an existing, active user whose role GetUserRole gives as r.
ActiveWithRole(u, r) ==
    /\ storeUp
    /\ users[u].exists
    /\ users[u].status = StatusNormal
    /\ GetUserRole(u) = [role |-> r, err |-> FALSE]

SeedResourceTypes == {"user", "content", "system", "admin"}

AllOperations ==
    {PermissionRead, PermissionWrite, PermissionCreate, PermissionDelete}

\* C11 as stated: on the seed table an active admin is allowed read, write and
\* create on each of user, content and system, and denied delete everywhere.
C11_AdminSeedAllCreate ==
    \A u \in UserIds :
        (rolePermissions = SeedTable /\ ActiveWithRole(u, RoleAdmin)) =>
            /\ \A rt \in {"user", "content", "system"},
                  op \in {PermissionRead, PermissionWrite, PermissionCreate} :
                   SimplifiedCheckPermission(u, rt, op).has
            /\ \A rt \in SeedResourceTypes :
                   ~SimplifiedCheckPermission(u, rt, PermissionDelete).has

\* C11 amended: on the seed table an active admin is allowed read, write and
\* create on user and content, read and write (not create) on system, and is
\* denied delete on every resource type and everything on other types.
C11_AdminSeed ==
    \A u \in UserIds :
        (rolePermissions = SeedTable /\ ActiveWithRole(u, RoleAdmin)) =>
            \A rt \in SeedResourceTypes, op \in AllOperations :
                SimplifiedCheckPermission(u, rt, op).has
                    = \/ /\ rt \in {"user", "content"}
                         /\ op \in {PermissionRead, PermissionWrite, PermissionCreate}
                      \/ /\ rt = "system"
                         /\ op \in {PermissionRead, PermissionWrite}

\* An admin's write on content was allowed on the seed table, where the same
\* admin's create on system is denied.
C11_Witness ==
    /\ rolePermissions = SeedTable
    /\ ActiveWithRole(1, RoleAdmin)
    /\ last.op = "SimplifiedCheckPermission"
    /\ last.user = 1 /\ last.rt = "content" /\ last.oper = PermissionWrite
    /\ last.has
    /\ ~SimplifiedCheckPermission(1, "system", PermissionCreate).has
\* C12: on the seed table an active guest, user or vip is allowed read on
\* the resource types seeded for the role (guest: content; user and vip: user
\* and content) and nothing else; every denial comes without an error, with
\* the resolved role and the insufficient-permission reason.
C12_SeedDefaultDeny ==
    \A u \in UserIds, r \in {RoleGuest, RoleUser, RoleVIP} :
        (rolePermissions = SeedTable /\ ActiveWithRole(u, r)) =>
            \A rt \in SeedResourceTypes, op \in AllOperations :
                LET res == SimplifiedCheckPermission(u, rt, op)
                    seeded == IF r = RoleGuest THEN {"content"}
                              ELSE {"user", "content"}
                IN  /\ res.has = (op = PermissionRead /\ rt \in seeded)
                    /\ ~res.err
                    /\ res.role = r
                    /\ ~res.has => res.reason = ReasonInsufficient

\* On the seed table a guest's write on admin was denied, with role guest and
\* the insufficient-permission reason.
C12_Witness ==
    /\ rolePermissions = SeedTable
    /\ ActiveWithRole(1, RoleGuest)
    /\ last.op = "SimplifiedCheckPermission"
    /\ last.user = 1 /\ last.rt = "admin" /\ last.oper = PermissionWrite
    /\ ~last.has /\ ~last.err /\ last.role = RoleGuest
    /\ SimplifiedCheckPermission(1, "admin", PermissionWrite).reason
           = ReasonInsufficient
\* The operations an operations string lists: its words.
Listed(operations) ==
    {operations[k] : k \in 1..Len(operations)} \ {Comma, Space}

\* C13: for an active user whose role R is not superadmin, CheckPermission
\* allows an operation on a resource type exactly when some entry of R for the
\* type (or for *) lists the operation or is "all".
C13_OperationSetMatching ==
    \A u \in UserIds, r \in Roles \ {RoleSuperAdmin} :
        ActiveWithRole(u, r) =>
            \A rt \in SeedResourceTypes \cup {"report"}, op \in AllOperations :
                SimplifiedCheckPermission(u, rt, op).has
                    = \E i \in 1..Len(rolePermissions) :
                          /\ rolePermissions[i].role = r
                          /\ rolePermissions[i].resourceType \in {rt, "*"}
                          /\ \/ rolePermissions[i].operations = OpsAll
                             \/ op \in Listed(rolePermissions[i].operations)

\* After AddRolePermission(admin, report, "read,write", all) an admin is
\* allowed write on report and denied delete.
C13_Witness ==
    /\ ActiveWithRole(1, RoleAdmin)
    /\ last.op = "AddRolePermission" /\ ~last.err
    /\ \E i \in 1..Len(rolePermissions) :
           rolePermissions[i]
               = RolePermission(RoleAdmin, "report", OpsReadWrite, "all")
    /\ SimplifiedCheckPermission(1, "report", PermissionWrite).has
    /\ ~SimplifiedCheckPermission(1, "report", PermissionDelete).has
\* C14: SetUserRole, AddRolePermission and GrantTemporaryRole called with a
\* role outside the registry return an error and leave user_roles and
\* role_permissions as they were.
C14_InvalidRoleRejected ==
    [][ ( /\ last'.op \in {"SetUserRole", "AddRolePermission", "GrantTemporaryRole"}
          /\ ~isValidRole(last'.role) )
        => /\ last'.err
           /\ userRoles' = userRoles
           /\ rolePermissions' = rolePermissions
      ]_vars
\* C15: no read returns the invalid-role error, whatever role it is asked
\* about: GetRolePermissions of an unknown role yields an empty result.
C15_ReadsNeverInvalidRole ==
    \A role \in Roles \cup {UnknownRole} :
        /\ ~GetRolePermissions(role).invalidRole
        /\ (storeUp /\ ~isValidRole(role)) =>
               GetRolePermissions(role) =
                   [rows |-> <<>>, err |-> FALSE, invalidRole |-> FALSE]
\* C16: with the store up, GetUserRole gives guest and no error for every
\* user without an active row, RevokeRole leaves its user without one, and it
\* changes no row of another user.
C16_NoActiveRowIsGuest ==
    /\ [](\A u \in UserIds :
              (storeUp /\ ~\E i \in 1..Len(userRoles) :
                              userRoles[i].userId = u /\ userRoles[i].isActive)
              => GetUserRole(u) = [role |-> RoleGuest, err |-> FALSE])
    /\ [][ (last'.op = "RevokeRole" /\ ~last'.err) =>
               /\ \A u \in UserIds :
                      last'.user = u =>
                          GetUserRole(u)' = [role |-> RoleGuest, err |-> FALSE]
               /\ Len(userRoles') = Len(userRoles)
               /\ \A i \in 1..Len(userRoles) :
                      userRoles[i].userId # last'.user =>
                          userRoles'[i] = userRoles[i]
         ]_vars

\* RevokeRole(1) has run after an assignment of user 1, whose row is now
\* inactive, while user 2 keeps an active row.
C16_Witness ==
    /\ last.op = "RevokeRole" /\ last.user = 1
    /\ \E i \in 1..Len(userRoles) :
           userRoles[i].userId = 1 /\ ~userRoles[i].isActive
    /\ \E i \in 1..Len(userRoles) :
           userRoles[i].userId = 2 /\ userRoles[i].isActive
    /\ GetUserRole(1).role = RoleGuest
\* C18: GrantTemporaryRole for a user who holds a permanent assignment
\* succeeds, inserts a row, and GetUserRole then gives the temporary role.
C18_TemporaryShadowsPermanent ==
    [][ \A u \in UserIds :
            ( /\ last'.op = "GrantTemporaryRole"
              /\ last'.user = u
              /\ isValidRole(last'.role)
              /\ \E i \in ActiveRoleRows(u) : userRoles[i].expiredAt = ZeroTime )
            => /\ ~last'.err
               /\ Len(userRoles') = Len(userRoles) + 1
               /\ GetUserRole(u)'.role = last'.role
      ]_vars
\* How many times a row occurs in a table.
RowCount(table, row) == Cardinality({k \in 1..Len(table) : table[k] = row})

C20_SweepsNeverFail ==
    /\ last.op = "CleanExpiredPermissions" => ~last.err
    /\ \A i \in 1..Len(userPermissions) :
           userPermissions[i].deleted => userPermissions[i].expiredAt <= now
\* C21: once ctx is cancelled the cleanup loop eventually returns, and while a
\* sweep that began after the cancellation is running (also one chosen by a
\* select in which the tick and the cancellation were both ready) no overlay
\* row becomes deleted.
C21_CancelStopsSweeps ==
    /\ cleanup.cancelled ~> (cleanup.pc = "returned")
    /\ [][(cleanup.late /\ cleanup.pc \in {"query", "delete"})
            => \A i \in 1..Len(userPermissions) :
                   userPermissions'[i].deleted = userPermissions[i].deleted]_vars

\* The loop has returned after a sweep that was started on the cancelled
\* context, and a row that sweep would have deleted is still in place.
C21_Witness ==
    /\ cleanup.pc = "returned"
    /\ cleanup.late
    /\ last = SweepReturn(TRUE)
    /\ \E i \in GetExpiredPermissions : ~userPermissions[i].deleted

\* The entries of a role for a resource type (or for *), as a set: the order
\* and the number of times an entry was added are forgotten.
EntriesOf(r, rt) ==
    {rolePermissions[i] : i \in RolePermissionRows(r, rt)}

\* The operations a set of entries grants together.
UnionOfOperations(entries) ==
    UNION {IF e.operations = OpsAll THEN AllOperations ELSE Listed(e.operations)
              : e \in entries}

Rescope(table, sc) ==
    [i \in 1..Len(table) |-> [table[i] EXCEPT !.scope = sc]]

RoleOrder == <<RoleGuest, RoleUser, RoleVIP, RoleAdmin, RoleSuperAdmin>>

Rank(r) == CHOOSE k \in 1..Len(RoleOrder) : RoleOrder[k] = r

\* The role a gated route asks for.
RequiredBy(route) ==
    CASE route \in {"checkedVIP", "tagVIP"} -> RoleVIP
      [] route \in {"guideAdmin", "checkedAdmin", "tagAdmin"} -> RoleAdmin
      [] route \in {"checkedSuper", "tagSuper"} -> RoleSuperAdmin

\* C24: hasRequiredRole(userRole, requiredRole) holds exactly when both roles
\* are registered and the user's rank is at least the required one, so never
\* for an unknown role; RequireAdmin, RequireVIP and RequireSuperAdmin of the
\* tag middleware admit the roles RequireRole(admin), RequireRole(vip) and
\* RequireRole(superadmin) admit; and a request that reached the handler of a
\* gated route carries a role of at least the required rank.
C24_CoarseRoleGate ==
    /\ \A ur, rr \in Roles \cup {UnknownRole} :
           hasRequiredRole(ur, rr)
               = (ur \in Roles /\ rr \in Roles /\ Rank(ur) >= Rank(rr))
    /\ \A role \in Roles \cup {UnknownRole} :
           /\ TagRequireAdmin(role) = hasRequiredRole(role, RoleAdmin)
           /\ TagRequireVIP(role) = hasRequiredRole(role, RoleVIP)
           /\ TagRequireSuperAdmin(role) = hasRequiredRole(role, RoleSuperAdmin)
    /\ request.stage = "handler" =>
           /\ request.hasUserRole
           /\ request.userRole \in Roles
           /\ Rank(request.userRole) >= Rank(RequiredBy(request.route))

\* An admin's request passed the tag middleware's RequireVIP and reached the
\* handler.
C24_Witness ==
    /\ request.stage = "handler"
    /\ request.route = "tagVIP"
    /\ request.userRole = RoleAdmin

\* C25: on the route guarded by the authentication and RequireAdmin() only,
\* the request of a logged-in user leaves the chain for the handler exactly
\* when the user's role is admin or superadmin, and is rejected otherwise.
C25_AdminRouteAdmits ==
    [][ ( /\ request.route = "guideAdmin"
          /\ request.stage = "chain"
          /\ request.hasUserId
          /\ request'.stage # "chain" )
        => (request'.stage = "handler")
               = (GetUserRole(request.userId).role \in {RoleAdmin, RoleSuperAdmin})
      ]_vars

\* The groups of the member rows a transfer read at its start.
OldGroups(p) ==
    {groupMembers[inflight[p].members[k]].groupId :
        k \in 1..Len(inflight[p].members)}

\* C26: while TransferUserGroups(u, newRole) is between two of its statements,
\* u's active groups are among those u had when it began or among the default
\* groups of the new role, also right after each of its statements; and a
\* transfer that fails leaves u's active groups among those u had when it
\* began.
C26_TransferDenyBiased ==
    /\ [](\A p \in Procs :
            inflight[p].op \in {"Remove", "Assign"} =>
                \/ ActiveGroups(inflight[p].user) \subseteq OldGroups(p)
                \/ ActiveGroups(inflight[p].user)
                       \subseteq {DefaultGroupOf(inflight[p].role)})
    /\ [][\A p \in Procs, u \in UserIds :
            (inflight[p].op \in {"Remove", "Assign"} /\ u = inflight[p].user)
            => /\ \/ ActiveGroups(u)' \subseteq OldGroups(p)
                  \/ ActiveGroups(u)' \subseteq {DefaultGroupOf(inflight[p].role)}
               /\ (last'.op = "TransferUserGroups" /\ last'.err)
                      => ActiveGroups(u)' \subseteq OldGroups(p)]_vars

\* A transfer from the guest group to role vip has removed the old membership
\* and not yet added the new one: the user is in no group, and a read of
\* content was just denied.
C26_Witness ==
    /\ \E p \in Procs :
           /\ inflight[p].op = "Assign"
           /\ inflight[p].role = RoleVIP
           /\ OldGroups(p) = {1}
           /\ ActiveGroups(inflight[p].user) = {}
    /\ last.op = "TagCheckPermission" /\ last.oper = PermissionRead /\ ~last.has

\* C27: with the store up, SetUserRole(u, r) with a registered role r
\* succeeds, also after RevokeRole(u), and GetUserRole(u) then gives r.
C27_SetUserRoleSucceeds ==
    [][ \A u \in UserIds :
            ( /\ storeUp
              /\ last'.op = "SetUserRole"
              /\ last'.user = u
              /\ isValidRole(last'.role) )
            => /\ ~last'.err
               /\ GetUserRole(u)' = [role |-> last'.role, err |-> FALSE]
      ]_vars

\* C28: on a seeded permission table, whatever entries role guest has in
\* it, a user id without a user record gets from CheckPermission the
\* decision an existing active user whose
\* resolved role is guest gets, for every resource type and operation.
C28_GuestEquivalence ==
    \A u, v \in UserIds :
        ( /\ storeUp
          /\ \A k \in 1..Len(DefaultPermissions) :
                 DefaultPermissions[k].role # RoleGuest =>
                     \E i \in 1..Len(rolePermissions) :
                         rolePermissions[i] = DefaultPermissions[k]
          /\ ~users[u].exists
          /\ ActiveWithRole(v, RoleGuest) )
        => \A rt \in SeedResourceTypes, op \in AllOperations :
               SimplifiedCheckPermission(u, rt, op).has
                   = SimplifiedCheckPermission(v, rt, op).has

\* C29: the role a CheckPermission result reports is the role under which
\* its decision was computed, also when a SetUserRole or RevokeRole for the
\* user comes in the middle of the check.
C29_ReportedRoleDecided ==
    [][ \A p \in Procs :
            ( /\ inflight[p].op = "CheckPermission"
              /\ inflight'[p] = Idle
              /\ ~last'.err )
            => last'.role = inflight[p].role
      ]_vars

\* C30: whatever way two InitializeDefaultPermissions calls interleave, the
\* table has at most one row for each (role, resource type) pair of the
\* default table.
C30_ConcurrentSeedOnePerPair ==
    \A k \in 1..Len(DefaultPermissions) :
        PairCount(rolePermissions, DefaultPermissions[k].role,
                  DefaultPermissions[k].resourceType) <= 1

====
